---- MODULE Spec2Model ----
(***************************************************************************)
(* CameraZoomPlugin (src/src/CameraZoomPlugin.cc): a Gazebo system that    *)
(* latches zoom commands arriving on a transport thread (OnZoom) and, once *)
(* per simulation step (PreUpdate), resolves the latest command into a     *)
(* goal horizontal FOV and slews the camera's FOV toward it.               *)
(*                                                                         *)
(* Numbers.  The code computes in double.  The model computes in exact     *)
(* rational arithmetic: a number is a pair <<n, d>> in lowest terms with   *)
(* d > 0.  IEEE-754 rounding is not modelled.  std::tan and std::atan2 are *)
(* modelled by a piecewise-linear interpolation of tan through TanKnots    *)
(* and by its exact inverse.                                               *)
(*                                                                         *)
(* Threads.  The simulation thread runs Configure once and then PreUpdate  *)
(* and PostUpdate in every step; pc is its position.  The transport thread *)
(* runs OnZoom; ppc is its position between the two atomic stores.  The    *)
(* render thread delivers OnRenderTeardown.  Steps of different threads    *)
(* interleave at the granularity of the accesses to shared fields.         *)
(***************************************************************************)
EXTENDS Integers, Sequences, FiniteSets, TLC

(***************************************************************************)
(* Exact rational arithmetic.  The operations are functions, so that an    *)
(* argument is a value by the time it is used.                             *)
(***************************************************************************)
\* Pairs <<numerator, denominator>>.
Rat == Int \X Int

\* Euclid's algorithm.
gcd[a \in Nat, b \in Nat] == IF b = 0 THEN a ELSE gcd[b, a % b]

IAbs(i) == IF i < 0 THEN -i ELSE i

\* n/d in lowest terms with a positive denominator (d # 0).
norm[n \in Int, d \in Int] ==
    LET g == gcd[IAbs(n), IAbs(d)]
        s == IF d < 0 THEN -1 ELSE 1
    IN  <<(s * n) \div g, (s * d) \div g>>

R(n, d) == norm[n, d]
Zero == <<0, 1>>
One == <<1, 1>>
Two == <<2, 1>>

\* Common factors are divided out before the products are formed, which
\* keeps the intermediate integers small.
radd[a \in Rat, b \in Rat] ==
    LET g == gcd[a[2], b[2]]
    IN  norm[a[1] * (b[2] \div g) + b[1] * (a[2] \div g), (a[2] \div g) * b[2]]
rsub[a \in Rat, b \in Rat] == radd[a, <<-b[1], b[2]>>]
rmul[a \in Rat, b \in Rat] ==
    LET g1 == gcd[IAbs(a[1]), b[2]]
        g2 == gcd[IAbs(b[1]), a[2]]
    IN  norm[(a[1] \div g1) * (b[1] \div g2), (a[2] \div g2) * (b[2] \div g1)]
rdiv[a \in Rat, b \in Rat] ==
    LET g1 == gcd[IAbs(a[1]), IAbs(b[1])]
        g2 == gcd[a[2], b[2]]
    IN  norm[(a[1] \div g1) * (b[2] \div g2), (a[2] \div g2) * (b[1] \div g1)]

\* n1/d1 < n2/d2 for n1, n2 >= 0 and d1, d2 > 0, by integer parts and then
\* the inverted remainders, so that no product is formed.
ltPos[n1 \in Nat, d1 \in Nat, n2 \in Nat, d2 \in Nat] ==
    IF n1 \div d1 # n2 \div d2 THEN n1 \div d1 < n2 \div d2
    ELSE IF n2 % d2 = 0 THEN FALSE
    ELSE IF n1 % d1 = 0 THEN TRUE
    ELSE ltPos[d2, n2 % d2, d1, n1 % d1]

rlt[a \in Rat, b \in Rat] ==
    IF a[1] < 0
    THEN IF b[1] < 0 THEN ltPos[-b[1], b[2], -a[1], a[2]] ELSE TRUE
    ELSE IF b[1] < 0 THEN FALSE ELSE ltPos[a[1], a[2], b[1], b[2]]

RAdd(a, b) == radd[a, b]
RSub(a, b) == rsub[a, b]
RMul(a, b) == rmul[a, b]
RDiv(a, b) == rdiv[a, b]
RLt(a, b) == rlt[a, b]
RLe(a, b) == ~rlt[b, a]
\* std::abs
rabs[a \in Rat] == IF a[1] < 0 THEN <<-a[1], a[2]>> ELSE a
RAbs(a) == rabs[a]
\* std::min(a, b): (b < a) ? b : a
rmin[a \in Rat, b \in Rat] == IF rlt[b, a] THEN b ELSE a
RMin(a, b) == rmin[a, b]

(***************************************************************************)
(* std::tan and std::atan2 on the range the camera uses (angles in [0, 3], *)
(* that is half-angles in [0, 3/2], below the singularity at pi/2).        *)
(* Knots <<h, tan h>>: tan 0.5 = 0.546, tan 1 = 1.557, tan 1.5 = 14.10.    *)
(***************************************************************************)
TanKnots == << <<Zero, Zero>>, <<R(1, 2), R(11, 20)>>,
               <<One, R(31, 20)>>, <<R(3, 2), R(14, 1)>> >>

\* The segment of the table that holds x, looked up in column col (1: the
\* angle, 2: its tangent); the last segment extends beyond the last knot.
segment[x \in Rat, col \in {1, 2}] ==
    IF RLe(x, TanKnots[2][col]) THEN 1
    ELSE IF RLe(x, TanKnots[3][col]) THEN 2 ELSE 3

\* The line through the knots of segment i, from column from to column to,
\* evaluated at x.
interpolate[x \in Rat, i \in {1, 2, 3}, from \in {1, 2}, to \in {1, 2}] ==
    LET lo == TanKnots[i]
        hi == TanKnots[i + 1]
        slope == RDiv(RSub(hi[to], lo[to]), RSub(hi[from], lo[from]))
    IN  RAdd(lo[to], RMul(RSub(x, lo[from]), slope))

tan[h \in Rat] == interpolate[h, segment[h, 1], 1, 2]
Tan(h) == tan[h]

\* atan of a non-negative number: the inverse of Tan.
atan[t \in Rat] == interpolate[t, segment[t, 2], 2, 1]
Atan(t) == atan[t]

\* std::atan2(y, x) in the first quadrant (x > 0, y >= 0); atan2(0, 0) = 0.
atan2[y \in Rat, x \in Rat] == IF x = Zero THEN Zero ELSE Atan(RDiv(y, x))
Atan2(y, x) == atan2[y, x]

(***************************************************************************)
(* Optics (rectilinear lens)                                               *)
(***************************************************************************)
\* return 2 * std::atan2(sensorWidth, 2 * focalLength);
FocalLengthToFov(sensorWidth, focalLength) ==
    RMul(Two, Atan2(sensorWidth, RMul(Two, focalLength)))

\* Mutant of FovToFocalLength: the tangent of the full angle.
FovToFocalLengthFullAngle(sensorWidth, fov) ==
    RDiv(sensorWidth, RMul(Two, Tan(fov)))

\* return sensorWidth / (2 * std::tan(fov / 2));
FovToFocalLength(sensorWidth, fov) ==
    RDiv(sensorWidth, RMul(Two, Tan(RDiv(fov, Two))))

\* return 2 * std::tan(fov / 2) * focalLength;
SensorWidth(focalLength, fov) ==
    RMul(RMul(Two, Tan(RDiv(fov, Two))), focalLength)

(***************************************************************************)
(* Program constants and the inputs the model draws from                   *)
(***************************************************************************)
\* std::numeric_limits<double>::infinity(), the default slewRate.
Inf == <<1, 0>>
\* std::isfinite
IsFinite(x) == x[2] # 0
\* A local or a handle value that has not been set.
Null == <<0, 0>>

\* std::numeric_limits<double>::epsilon().  The double value is 2^-52; the
\* model's integers are 32 bits wide, so the threshold is 2^-30, which is
\* still below the distance between any two distinct values of the model.
Epsilon == <<1, 1073741824>>
\* x < epsilon and x > epsilon for x >= 0, without forming x[1] * 2^30.
BelowEpsilon(x) == x[1] <= (x[2] - 1) \div Epsilon[2]
AboveEpsilon(x) == x[1] > x[2] \div Epsilon[2]

\* double refHfov{2.0}
RefHfov == Two
\* static constexpr double minZoom{1.0}
MinZoom == One
\* double maxZoom{10.0}
DefaultMaxZoom == R(10, 1)

\* The number of zoom commands the transport thread delivers.
MaxSubmits == 2

\* <max_zoom> of the SDF, or the default when the element is absent.
MaxZooms == {R(4, 1), DefaultMaxZoom}
\* <slew_rate> of the SDF, or the default (infinity) when absent.
SlewRates == {Zero, R(1, 2), Inf}
\* msgs::Double payloads: below minZoom, in range, above every maxZoom.
ZoomCmds == {R(1, 2), Two, R(20, 1)}
\* UpdateInfo::dt in seconds (0 while the simulation is paused).
Dts == {Zero, One}
\* <horizontal_fov> and <lens><focal_length> of the camera SDF.
InitialHfovs == {One, Two}
FocalLengths == {One}
\* Which lookup of Configure fails, if any.
ConfigFaults == {"none", "notSensor", "noName", "noParentModel", "noWorld"}
\* What the scene holds under the camera's name.
SceneSensors == {"camera", "other", "none"}
\* loadedEngines() empty; engine loaded, scene not ready; scene ready.
RenderStages == {"none", "engine", "ready"}

VARIABLES
    \* the world the plugin is attached to (inputs, fixed by Init)
    configFault,        \* the lookup of Configure that fails, or "none"
    hasCameraComp,      \* the entity has a components::Camera
    hasCameraSdf,       \* sensor.CameraSensor() is not null
    sceneSensor,        \* what scene->SensorByName(cameraName) finds
    lensFocalLength,    \* cameraSdf->LensFocalLength()
    configuredHfov,     \* <horizontal_fov> as configured in the SDF
    \* the environment
    renderStage,        \* state of the render engine and its scene
    \* CameraZoomPlugin::Impl
    isValidConfig, maxZoom, slewRate, subscribed, cameraNameSet,
    scene, camera,      \* whether the pointers are non-null
    zoomChanged, zoomCommand, goalHfov,
    \* the camera
    sdfHfov,            \* cameraSdf->HorizontalFov()
    renderHfov,         \* the HFOV last given to camera->SetHFOV, or Null
    \* threads
    pc,                 \* simulation thread
    ppc,                \* transport thread, inside OnZoom or "idle"
    \* locals of the PreUpdate call in progress (or of the last one)
    dt, requestedZoomCmd, oldHfov, curFocalLength, sensorWidth,
    goalFocalLength, newFocalLength, newHfov,
    \* what the PreUpdate call in progress (or the last one) has done
    tickPath,           \* the return it took
    resolved,           \* it recomputed goalHfov
    warned,             \* it emitted the clamp warning
    sdfWrites,          \* calls of cameraSdf->SetHorizontalFov
    setChangedCalls,    \* calls of _ecm.SetChanged
    \* history
    submits,            \* OnZoom calls started
    tornDown,           \* OnRenderTeardown has run
    nullDeref,          \* camera->SetHFOV was called on a null pointer
    lastSubmitted,      \* _msg.data() of the last OnZoom call, or Null
    latched,            \* OnZoom calls completed since zoomChanged was
                        \* last cleared
    \* the next three describe the PreUpdate call in progress and are
    \* FALSE while none is
    overlap,            \* an OnZoom call ran a store since the call passed
                        \* its entry checks, or was between its two stores
                        \* at that moment
    inFlight,           \* the call loaded zoomCommand while an OnZoom call
                        \* was between its two stores
    repeated,           \* the call resolved the command value that the
                        \* resolution before it had resolved
    resolutionCount,    \* goal resolutions so far
    lastResolved,       \* the command value of the last one, or Null
    uninitCommand       \* "pending": an OnZoom call completed while the
                        \* plugin was configured and held no camera, and no
                        \* PreUpdate call has reached the poll of zoomChanged
                        \* since; "polled": the first such call is in
                        \* progress; "none" otherwise

world == <<configFault, hasCameraComp, hasCameraSdf, sceneSensor,
           lensFocalLength, configuredHfov>>
impl == <<isValidConfig, maxZoom, slewRate, subscribed, cameraNameSet,
          scene, camera, zoomChanged, zoomCommand, goalHfov>>
locals == <<dt, requestedZoomCmd, oldHfov, curFocalLength, sensorWidth,
            goalFocalLength, newFocalLength, newHfov>>
done == <<tickPath, resolved, warned, sdfWrites, setChangedCalls>>
ghost == <<lastSubmitted, latched, overlap, inFlight, repeated,
           resolutionCount, lastResolved, uninitCommand>>
vars == <<world, renderStage, impl, sdfHfov, renderHfov, pc, ppc, locals,
          done, submits, tornDown, nullDeref, ghost>>

\* The state after construction (member initialisers of Impl), attached to
\* some world.
Init ==
    /\ configFault \in ConfigFaults
    /\ hasCameraComp \in BOOLEAN
    /\ hasCameraSdf \in BOOLEAN
    /\ sceneSensor \in SceneSensors
    /\ lensFocalLength \in FocalLengths
    /\ configuredHfov \in InitialHfovs
    /\ sdfHfov = configuredHfov
    /\ renderStage = "none"
    /\ isValidConfig = FALSE
    /\ maxZoom = DefaultMaxZoom
    /\ slewRate = Inf
    /\ subscribed = FALSE
    /\ cameraNameSet = FALSE
    /\ scene = FALSE
    /\ camera = FALSE
    /\ zoomChanged = FALSE
    /\ zoomCommand = One
    /\ goalHfov = Two
    /\ renderHfov = Null
    /\ pc = "configure"
    /\ ppc = "idle"
    /\ dt = Null /\ requestedZoomCmd = Null /\ oldHfov = Null
    /\ curFocalLength = Null /\ sensorWidth = Null
    /\ goalFocalLength = Null
    /\ newFocalLength = Null /\ newHfov = Null
    /\ tickPath = "none" /\ resolved = FALSE /\ warned = FALSE
    /\ sdfWrites = 0 /\ setChangedCalls = 0
    /\ submits = 0
    /\ tornDown = FALSE
    /\ nullDeref = FALSE
    /\ lastSubmitted = Null
    /\ latched = 0
    /\ overlap = FALSE
    /\ inFlight = FALSE
    /\ repeated = FALSE
    /\ resolutionCount = 0
    /\ lastResolved = Null
    /\ uninitCommand = "none"

(***************************************************************************)
(* Configure                                                               *)
(***************************************************************************)
\* Mutant of Configure: isValidConfig is set before the lookups are checked.
ConfigureValidBeforeChecks ==
    /\ pc = "configure"
    /\ pc' = "idle"
    /\ isValidConfig' = TRUE
    /\ IF configFault # "none"
       THEN UNCHANGED <<maxZoom, slewRate, subscribed>>
       ELSE /\ \E mz \in MaxZooms, sr \in SlewRates :
                 maxZoom' = mz /\ slewRate' = sr
            /\ subscribed' = TRUE
    /\ UNCHANGED <<world, renderStage, cameraNameSet, scene, camera,
                   zoomChanged, zoomCommand, goalHfov, sdfHfov, renderHfov,
                   ppc, locals, done, submits, tornDown, nullDeref, ghost>>

Configure ==
    /\ pc = "configure"
    /\ pc' = "idle"
    /\ IF configFault # "none"
       THEN \* one of the four early returns
            UNCHANGED <<isValidConfig, maxZoom, slewRate, subscribed>>
       ELSE /\ \E mz \in MaxZooms, sr \in SlewRates :
                 maxZoom' = mz /\ slewRate' = sr
            \* node.Subscribe(OnZoom) and Connect<RenderTeardown>
            /\ subscribed' = TRUE
            /\ isValidConfig' = TRUE
    /\ UNCHANGED <<world, renderStage, cameraNameSet, scene, camera,
                   zoomChanged, zoomCommand, goalHfov, sdfHfov, renderHfov,
                   ppc, locals, done, submits, tornDown, nullDeref, ghost>>

(***************************************************************************)
(* OnZoom, on the transport thread: two atomic stores                      *)
(***************************************************************************)
\* A PreUpdate call is past its entry checks and has not returned.
InTick == pc \in {"poll", "resolve", "clear", "slew", "publish"}

\* Mutant of OnZoomStore: a value that arrives while a command is pending
\* does not replace the pending one.
OnZoomStoreKeepsFirst ==
    /\ subscribed
    /\ ppc = "idle"
    /\ submits < MaxSubmits
    /\ \E v \in ZoomCmds :
          /\ zoomCommand' = IF zoomChanged THEN zoomCommand ELSE v
          /\ lastSubmitted' = v
    /\ submits' = submits + 1
    /\ ppc' = "flag"
    /\ overlap' = (overlap \/ InTick)
    /\ UNCHANGED <<world, renderStage, isValidConfig, maxZoom, slewRate,
                   subscribed, cameraNameSet, scene, camera, zoomChanged,
                   goalHfov, sdfHfov, renderHfov, pc, locals, done, tornDown,
                   nullDeref, latched, inFlight, repeated, resolutionCount,
                   lastResolved, uninitCommand>>

\* Mutant of OnZoomStore: the callback also recomputes the goal.
OnZoomStoreResolves ==
    /\ subscribed
    /\ ppc = "idle"
    /\ submits < MaxSubmits
    /\ \E v \in ZoomCmds :
          /\ zoomCommand' = v /\ lastSubmitted' = v
          /\ goalHfov' = RDiv(RefHfov, v)
    /\ submits' = submits + 1
    /\ ppc' = "flag"
    /\ overlap' = (overlap \/ InTick)
    /\ UNCHANGED <<world, renderStage, isValidConfig, maxZoom, slewRate,
                   subscribed, cameraNameSet, scene, camera, zoomChanged,
                   sdfHfov, renderHfov, pc, locals, done, tornDown,
                   nullDeref, latched, inFlight, repeated, resolutionCount,
                   lastResolved, uninitCommand>>

\* this->zoomCommand = _msg.data();
OnZoomStore ==
    /\ subscribed
    /\ ppc = "idle"
    /\ submits < MaxSubmits
    /\ \E v \in ZoomCmds : zoomCommand' = v /\ lastSubmitted' = v
    /\ submits' = submits + 1
    /\ ppc' = "flag"
    /\ overlap' = (overlap \/ InTick)
    /\ UNCHANGED <<world, renderStage, isValidConfig, maxZoom, slewRate,
                   subscribed, cameraNameSet, scene, camera, zoomChanged,
                   goalHfov, sdfHfov, renderHfov, pc, locals, done, tornDown,
                   nullDeref, latched, inFlight, repeated, resolutionCount,
                   lastResolved, uninitCommand>>

\* this->zoomChanged = true;
OnZoomFlag ==
    /\ ppc = "flag"
    /\ zoomChanged' = TRUE
    /\ ppc' = "idle"
    /\ latched' = latched + 1
    /\ overlap' = (overlap \/ InTick)
    /\ uninitCommand' = IF isValidConfig /\ ~camera THEN "pending"
                                                     ELSE uninitCommand
    /\ UNCHANGED <<world, renderStage, isValidConfig, maxZoom, slewRate,
                   subscribed, cameraNameSet, scene, camera, zoomCommand,
                   goalHfov, sdfHfov, renderHfov, pc, locals, done, submits,
                   tornDown, nullDeref, lastSubmitted, inFlight, repeated,
                   resolutionCount, lastResolved>>

(***************************************************************************)
(* The render engine comes up (environment)                                *)
(***************************************************************************)
RenderAdvance ==
    /\ renderStage # "ready"
    /\ renderStage' = IF renderStage = "none" THEN "engine" ELSE "ready"
    /\ UNCHANGED <<world, impl, sdfHfov, renderHfov, pc, ppc, locals, done,
                   submits, tornDown, nullDeref, ghost>>

(***************************************************************************)
(* OnRenderTeardown, delivered on the render thread                        *)
(***************************************************************************)
\* Mutant of OnRenderTeardown: isValidConfig is left set.
OnRenderTeardownKeepsConfig ==
    /\ subscribed
    /\ ~tornDown
    /\ camera' = FALSE
    /\ scene' = FALSE
    /\ tornDown' = TRUE
    /\ UNCHANGED <<world, renderStage, isValidConfig, maxZoom, slewRate,
                   subscribed, cameraNameSet, zoomChanged, zoomCommand,
                   goalHfov, sdfHfov, renderHfov, pc, ppc, locals, done,
                   submits, nullDeref, ghost>>

OnRenderTeardown ==
    /\ subscribed
    /\ ~tornDown
    /\ camera' = FALSE
    /\ scene' = FALSE
    /\ isValidConfig' = FALSE
    /\ tornDown' = TRUE
    /\ UNCHANGED <<world, renderStage, maxZoom, slewRate, subscribed,
                   cameraNameSet, zoomChanged, zoomCommand, goalHfov,
                   sdfHfov, renderHfov, pc, ppc, locals, done, submits,
                   nullDeref, ghost>>

(***************************************************************************)
(* PreUpdate, on the simulation thread                                     *)
(***************************************************************************)
\* Mutant of Clamp: the upper bound is not applied.
ClampNoUpper(v, lo, hi) == IF RLt(v, lo) THEN lo ELSE v

\* std::clamp(v, lo, hi): (v < lo) ? lo : (hi < v) ? hi : v
Clamp(v, lo, hi) == IF RLt(v, lo) THEN lo ELSE IF RLt(hi, v) THEN hi ELSE v

\* Mutant of ResolveGoal: the zoom factor is applied to the camera's
\* current FOV instead of the reference FOV.
ResolveGoalFromCurrentFov(requested, mz) ==
    RDiv(sdfHfov, Clamp(requested, MinZoom, mz))

\* this->impl->refHfov / clampedZoomCmd
ResolveGoal(requested, mz) == RDiv(RefHfov, Clamp(requested, MinZoom, mz))

\* Mutant of ClampWarning: only a request above maxZoom is reported.
ClampWarningAboveOnly(requested, mz) == RLt(mz, requested)

\* std::abs(requestedZoomCmd - clampedZoomCmd) > epsilon
ClampWarning(requested, mz) ==
    AboveEpsilon(RAbs(RSub(requested, Clamp(requested, MinZoom, mz))))

\* std::abs(goalHfov - oldHfov) < epsilon
GoalAchieved(goal, old) == BelowEpsilon(RAbs(RSub(goal, old)))

\* Mutant of NewFocalLength: the rate limit is not applied.
NewFocalLengthUnlimited(rate, d, cur, goalFL) == goalFL

\* Mutant of NewFocalLength: the sign test is inverted, so a finite slew
\* moves away from the goal.
NewFocalLengthWrongWay(rate, d, cur, goalFL) ==
    IF IsFinite(rate)
    THEN LET maxFocalLengthChange == RMul(rate, d)
             deltaFL == RMin(maxFocalLengthChange, RAbs(RSub(cur, goalFL)))
         IN  IF RLt(goalFL, cur) THEN RAdd(cur, deltaFL)
                                 ELSE RSub(cur, deltaFL)
    ELSE goalFL

\* Mutant of NewFocalLength: the time step is taken as zero, so a finite
\* slew never moves.
NewFocalLengthZeroStep(rate, d, cur, goalFL) ==
    IF IsFinite(rate) THEN cur ELSE goalFL

\* The focal length the tick moves to (the if/else on std::isfinite).
NewFocalLength(rate, d, cur, goalFL) ==
    IF IsFinite(rate)
    THEN LET maxFocalLengthChange == RMul(rate, d)
             deltaFL == RMin(maxFocalLengthChange, RAbs(RSub(cur, goalFL)))
         IN  IF RLt(cur, goalFL) THEN RAdd(cur, deltaFL)
                                 ELSE RSub(cur, deltaFL)
    ELSE goalFL

\* InitialiseCamera(): called with camera null.
InitialiseCamera ==
    /\ scene' = (scene \/ renderStage # "none")
    /\ camera' = (/\ renderStage = "ready"
                  /\ cameraNameSet
                  /\ sceneSensor = "camera")

\* Mutant of PreUpdateBegin: a call that acquires the camera goes on to
\* the poll in the same call.
PreUpdateBeginFallsThrough(d) ==
    /\ pc = "idle"
    /\ dt' = d
    /\ requestedZoomCmd' = Null /\ oldHfov' = Null /\ curFocalLength' = Null
    /\ sensorWidth' = Null
    /\ goalFocalLength' = Null /\ newFocalLength' = Null /\ newHfov' = Null
    /\ resolved' = FALSE /\ warned' = FALSE
    /\ sdfWrites' = 0 /\ setChangedCalls' = 0
    /\ IF ~isValidConfig
       THEN /\ tickPath' = "inert" /\ pc' = "post"
            /\ UNCHANGED <<scene, camera, overlap, uninitCommand>>
       ELSE IF ~camera
       THEN /\ InitialiseCamera
            /\ IF camera' THEN tickPath' = "active" /\ pc' = "poll"
                          ELSE tickPath' = "acquire" /\ pc' = "post"
            /\ UNCHANGED <<overlap, uninitCommand>>
       ELSE IF ~hasCameraComp
       THEN /\ tickPath' = "nocomp" /\ pc' = "post"
            /\ UNCHANGED <<scene, camera, overlap, uninitCommand>>
       ELSE /\ tickPath' = "active" /\ pc' = "poll"
            /\ overlap' = (ppc = "flag")
            /\ uninitCommand' = IF uninitCommand = "pending" THEN "polled"
                                                              ELSE "none"
            /\ UNCHANGED <<scene, camera>>
    /\ UNCHANGED <<world, renderStage, isValidConfig, maxZoom, slewRate,
                   subscribed, cameraNameSet, zoomChanged, zoomCommand,
                   goalHfov, sdfHfov, renderHfov, ppc, submits, tornDown,
                   nullDeref, lastSubmitted, latched, inFlight, repeated,
                   resolutionCount, lastResolved>>

\* Mutant of PreUpdateBegin: a call without a camera discards the pending
\* command.
PreUpdateBeginDropsCommand(d) ==
    /\ pc = "idle"
    /\ dt' = d
    /\ requestedZoomCmd' = Null /\ oldHfov' = Null /\ curFocalLength' = Null
    /\ sensorWidth' = Null
    /\ goalFocalLength' = Null /\ newFocalLength' = Null /\ newHfov' = Null
    /\ resolved' = FALSE /\ warned' = FALSE
    /\ sdfWrites' = 0 /\ setChangedCalls' = 0
    /\ IF ~isValidConfig
       THEN /\ tickPath' = "inert" /\ pc' = "post"
            /\ UNCHANGED <<scene, camera, overlap, uninitCommand,
                           zoomChanged>>
       ELSE IF ~camera
       THEN /\ InitialiseCamera
            /\ tickPath' = "acquire" /\ pc' = "post"
            /\ zoomChanged' = FALSE
            /\ UNCHANGED <<overlap, uninitCommand>>
       ELSE IF ~hasCameraComp
       THEN /\ tickPath' = "nocomp" /\ pc' = "post"
            /\ UNCHANGED <<scene, camera, overlap, uninitCommand,
                           zoomChanged>>
       ELSE /\ tickPath' = "active" /\ pc' = "poll"
            /\ overlap' = (ppc = "flag")
            /\ uninitCommand' = IF uninitCommand = "pending" THEN "polled"
                                                              ELSE "none"
            /\ UNCHANGED <<scene, camera, zoomChanged>>
    /\ UNCHANGED <<world, renderStage, isValidConfig, maxZoom, slewRate,
                   subscribed, cameraNameSet, zoomCommand,
                   goalHfov, sdfHfov, renderHfov, ppc, submits, tornDown,
                   nullDeref, lastSubmitted, latched, inFlight, repeated,
                   resolutionCount, lastResolved>>

\* Entry of PreUpdate up to the poll of the dirty flag: the checks of
\* isValidConfig, of the camera pointer and of the Camera component.
PreUpdateBegin(d) ==
    /\ pc = "idle"
    /\ dt' = d
    /\ requestedZoomCmd' = Null /\ oldHfov' = Null /\ curFocalLength' = Null
    /\ sensorWidth' = Null
    /\ goalFocalLength' = Null /\ newFocalLength' = Null /\ newHfov' = Null
    /\ resolved' = FALSE /\ warned' = FALSE
    /\ sdfWrites' = 0 /\ setChangedCalls' = 0
    /\ IF ~isValidConfig
       THEN /\ tickPath' = "inert" /\ pc' = "post"
            /\ UNCHANGED <<scene, camera, overlap, uninitCommand>>
       ELSE IF ~camera
       THEN /\ InitialiseCamera
            /\ tickPath' = "acquire" /\ pc' = "post"
            /\ UNCHANGED <<overlap, uninitCommand>>
       ELSE IF ~hasCameraComp
       THEN /\ tickPath' = "nocomp" /\ pc' = "post"
            /\ UNCHANGED <<scene, camera, overlap, uninitCommand>>
       ELSE /\ tickPath' = "active" /\ pc' = "poll"
            /\ overlap' = (ppc = "flag")
            /\ uninitCommand' = IF uninitCommand = "pending" THEN "polled"
                                                              ELSE "none"
            /\ UNCHANGED <<scene, camera>>
    /\ UNCHANGED <<world, renderStage, isValidConfig, maxZoom, slewRate,
                   subscribed, cameraNameSet, zoomChanged, zoomCommand,
                   goalHfov, sdfHfov, renderHfov, ppc, submits, tornDown,
                   nullDeref, lastSubmitted, latched, inFlight, repeated,
                   resolutionCount, lastResolved>>

\* if (this->impl->zoomChanged)
PreUpdatePoll ==
    /\ pc = "poll"
    /\ pc' = IF zoomChanged THEN "resolve" ELSE "slew"
    /\ UNCHANGED <<world, renderStage, impl, sdfHfov, renderHfov, ppc,
                   locals, done, submits, tornDown, nullDeref, ghost>>

\* zoomCommand.load(), the clamp, the warning and the store of goalHfov.
PreUpdateResolve ==
    /\ pc = "resolve"
    /\ requestedZoomCmd' = zoomCommand
    /\ warned' = ClampWarning(zoomCommand, maxZoom)
    /\ goalHfov' = ResolveGoal(zoomCommand, maxZoom)
    /\ resolved' = TRUE
    /\ inFlight' = (ppc = "flag")
    /\ repeated' = (zoomCommand = lastResolved)
    /\ resolutionCount' = resolutionCount + 1
    /\ lastResolved' = zoomCommand
    /\ pc' = "clear"
    /\ UNCHANGED <<world, renderStage, isValidConfig, maxZoom, slewRate,
                   subscribed, cameraNameSet, scene, camera, zoomChanged,
                   zoomCommand, sdfHfov, renderHfov, ppc, dt, oldHfov,
                   curFocalLength, sensorWidth, goalFocalLength,
                   newFocalLength, newHfov, tickPath, sdfWrites,
                   setChangedCalls, submits, tornDown, nullDeref,
                   lastSubmitted, latched, overlap, uninitCommand>>

\* Mutant of PreUpdateClear: the dirty flag is left set.
PreUpdateClearKeepsFlag ==
    /\ pc = "clear"
    /\ pc' = "slew"
    /\ UNCHANGED <<world, renderStage, impl, sdfHfov, renderHfov, ppc,
                   locals, done, submits, tornDown, nullDeref, ghost>>

\* this->impl->zoomChanged = false;
PreUpdateClear ==
    /\ pc = "clear"
    /\ zoomChanged' = FALSE
    /\ latched' = 0
    /\ pc' = "slew"
    /\ UNCHANGED <<world, renderStage, isValidConfig, maxZoom, slewRate,
                   subscribed, cameraNameSet, scene, camera, zoomCommand,
                   goalHfov, sdfHfov, renderHfov, ppc, locals, done, submits,
                   tornDown, nullDeref, lastSubmitted, overlap, inFlight,
                   repeated, resolutionCount, lastResolved, uninitCommand>>

\* From the read of the camera SDF to _ecm.SetChanged.
PreUpdateSlew ==
    /\ pc = "slew"
    /\ IF ~hasCameraSdf
       THEN /\ tickPath' = "nosdf" /\ pc' = "post"
            /\ overlap' = FALSE /\ inFlight' = FALSE /\ repeated' = FALSE
            /\ uninitCommand' = "none"
            /\ UNCHANGED <<sdfHfov, oldHfov, curFocalLength, sensorWidth,
                           goalFocalLength, newFocalLength, newHfov,
                           sdfWrites, setChangedCalls>>
       ELSE IF GoalAchieved(goalHfov, sdfHfov)
       THEN /\ oldHfov' = sdfHfov
            /\ tickPath' = "atgoal" /\ pc' = "post"
            /\ overlap' = FALSE /\ inFlight' = FALSE /\ repeated' = FALSE
            /\ uninitCommand' = "none"
            /\ UNCHANGED <<sdfHfov, curFocalLength, sensorWidth,
                           goalFocalLength, newFocalLength, newHfov,
                           sdfWrites, setChangedCalls>>
       ELSE LET width == SensorWidth(lensFocalLength, sdfHfov)
                goalFL == FovToFocalLength(width, goalHfov)
                newFL == NewFocalLength(slewRate, dt, lensFocalLength, goalFL)
                hfov == FocalLengthToFov(width, newFL)
            IN  /\ oldHfov' = sdfHfov
                /\ curFocalLength' = lensFocalLength
                /\ sensorWidth' = width
                /\ goalFocalLength' = goalFL
                /\ newFocalLength' = newFL
                /\ newHfov' = hfov
                /\ sdfHfov' = hfov
                /\ sdfWrites' = sdfWrites + 1
                /\ setChangedCalls' = setChangedCalls + 1
                /\ tickPath' = "slew" /\ pc' = "publish"
                /\ UNCHANGED <<overlap, inFlight, repeated, uninitCommand>>
    /\ UNCHANGED <<world, renderStage, impl, renderHfov, ppc, dt,
                   requestedZoomCmd, resolved, warned, submits, tornDown,
                   nullDeref, lastSubmitted, latched, resolutionCount,
                   lastResolved>>

\* this->impl->camera->SetHFOV(newHfov).  With the pointer reset by a
\* teardown since the check at entry this dereferences null: undefined
\* behaviour, which either stops the process or lets the call return.
PreUpdatePublish ==
    /\ pc = "publish"
    /\ IF camera
       THEN /\ renderHfov' = newHfov
            /\ pc' = "post"
            /\ UNCHANGED nullDeref
       ELSE /\ nullDeref' = TRUE
            /\ pc' \in {"crashed", "post"}
            /\ UNCHANGED renderHfov
    /\ tickPath' = "published"
    /\ overlap' = FALSE /\ inFlight' = FALSE /\ repeated' = FALSE
    /\ uninitCommand' = "none"
    /\ UNCHANGED <<world, renderStage, impl, sdfHfov, ppc, locals, resolved,
                   warned, sdfWrites, setChangedCalls, submits, tornDown,
                   lastSubmitted, latched, resolutionCount, lastResolved>>

(***************************************************************************)
(* PostUpdate: runs after PreUpdate in every step                          *)
(***************************************************************************)
PostUpdate ==
    /\ pc = "post"
    /\ cameraNameSet' = TRUE
    /\ pc' = "idle"
    /\ UNCHANGED <<world, renderStage, isValidConfig, maxZoom, slewRate,
                   subscribed, scene, camera, zoomChanged, zoomCommand,
                   goalHfov, sdfHfov, renderHfov, ppc, locals, done, submits,
                   tornDown, nullDeref, ghost>>

PreUpdate ==
    \/ \E d \in Dts : PreUpdateBegin(d)
    \/ PreUpdatePoll
    \/ PreUpdateResolve
    \/ PreUpdateClear
    \/ PreUpdateSlew
    \/ PreUpdatePublish

OnZoom == OnZoomStore \/ OnZoomFlag

Next ==
    \/ Configure
    \/ PreUpdate
    \/ PostUpdate
    \/ OnZoom
    \/ RenderAdvance
    \/ OnRenderTeardown

Spec == Init /\ [][Next]_vars

(***************************************************************************)
(* The running simulation: every step has dt > 0 and the simulation thread *)
(* keeps stepping (the runner calls PreUpdate and PostUpdate in a loop).   *)
(***************************************************************************)
PreUpdateRunning ==
    \/ \E d \in Dts \ {Zero} : PreUpdateBegin(d)
    \/ PreUpdatePoll
    \/ PreUpdateResolve
    \/ PreUpdateClear
    \/ PreUpdateSlew
    \/ PreUpdatePublish

\* Configure with a <slew_rate> that is finite and positive.
ConfigureSlewing == Configure /\ IsFinite(slewRate') /\ slewRate' # Zero

SimulationThread == ConfigureSlewing \/ PreUpdateRunning \/ PostUpdate

NextRunning ==
    \/ SimulationThread
    \/ OnZoom
    \/ RenderAdvance
    \/ OnRenderTeardown

\* The plugin attached to a camera sensor of a complete world.
RunningInit ==
    /\ Init
    /\ configFault = "none" /\ hasCameraComp /\ hasCameraSdf
    /\ sceneSensor = "camera"

RunningSpec ==
    RunningInit /\ [][NextRunning]_vars /\ WF_vars(SimulationThread)

(***************************************************************************)
(* Properties                                                              *)
(***************************************************************************)
\* x lies between a and b, ends included, whichever of a and b is larger.
Between(x, a, b) ==
    \/ RLe(a, x) /\ RLe(x, b)
    \/ RLe(b, x) /\ RLe(x, a)

\* The PreUpdate call in progress (or the last one) ran the slew
\* computation, so that its locals are set.
Slewed == tickPath \in {"slew", "published"}

\* C1: the most recently submitted command is never lost.  Stated on
\* states: whenever no OnZoom is in progress and the dirty flag is clear (so
\* that no later tick will resolve anything until another command arrives),
\* goalHfov is the goal of the command value last stored,
\* refHfov / clamp(zoomCommand, 1.0, maxZoom).
C1_LatestCommandResolved ==
    (ppc = "idle" /\ ~zoomChanged) =>
        goalHfov = ResolveGoal(zoomCommand, maxZoom)

C4_FocalLengthRateLimited ==
    (Slewed /\ IsFinite(slewRate)) =>
        /\ RLe(RAbs(RSub(newFocalLength, curFocalLength)),
               RMul(slewRate, dt))
        /\ (dt = Zero \/ slewRate = Zero) =>
               (newFocalLength = curFocalLength /\ newHfov = oldHfov)

\* C4 witness: an off-goal tick whose goal was further away than
\* slewRate * dt > 0 and which moved by exactly slewRate * dt.
C4_Witness ==
    /\ Slewed /\ IsFinite(slewRate)
    /\ RLt(Zero, RMul(slewRate, dt))
    /\ RLt(RMul(slewRate, dt), RAbs(RSub(goalFocalLength, curFocalLength)))
    /\ RAbs(RSub(newFocalLength, curFocalLength)) = RMul(slewRate, dt)

\* C5: with a finite slewRate > 0 the new focal length lies between the
\* current and the goal focal length, and the new FOV between the old FOV
\* and goalHfov (ends included): no move away from the goal, none past it.
C5_MovesTowardGoal ==
    (Slewed /\ IsFinite(slewRate) /\ RLt(Zero, slewRate)) =>
        /\ Between(newFocalLength, curFocalLength, goalFocalLength)
        /\ Between(newHfov, oldHfov, goalHfov)

\* C5 witness: a rate-limited tick that ended strictly between where it
\* started and the goal.
C5_Witness ==
    /\ Slewed /\ IsFinite(slewRate) /\ RLt(Zero, slewRate)
    /\ newFocalLength # curFocalLength /\ newFocalLength # goalFocalLength
    /\ newHfov # oldHfov /\ newHfov # goalHfov

\* The controller is Active on a camera, with a finite slewRate > 0.
ActiveFiniteSlew ==
    /\ isValidConfig /\ camera /\ hasCameraComp /\ hasCameraSdf
    /\ slewRate # Inf /\ slewRate # Zero

\* The camera FOV is within epsilon of the goal.
AtGoal == GoalAchieved(goalHfov, sdfHfov)

\* A tick that wrote the FOV started off-goal, and a tick that started at
\* the goal took the early exit and wrote nothing.
WritesOnlyOffGoal ==
    /\ Slewed => ~GoalAchieved(goalHfov, oldHfov)
    /\ tickPath = "atgoal" =>
          /\ AtGoal /\ sdfHfov = oldHfov
          /\ sdfWrites = 0 /\ setChangedCalls = 0

\* C6: with a finite slewRate > 0 and every dt > 0, an Active controller
\* reaches its goal after finitely many ticks (unless a teardown ends it),
\* and a tick that starts at the goal takes the early exit and writes
\* nothing: only a tick that starts off-goal (after a new resolution) writes.
C6_ReachesGoalAndRests ==
    /\ ActiveFiniteSlew ~> (AtGoal \/ tornDown)
    /\ []WritesOnlyOffGoal

\* C6 witness: a rate-limited slew from 2.0 rad has arrived at the goal
\* 0.2 rad and the tick after it took the early exit.
C6_Witness ==
    /\ ActiveFiniteSlew /\ tickPath = "atgoal" /\ pc = "post"
    /\ configuredHfov = Two /\ goalHfov = R(1, 5) /\ sdfHfov = goalHfov
    /\ sdfWrites = 0 /\ setChangedCalls = 0

\* C7: with slewRate = infinity, a tick that resolved a pending command
\* ends (camera SDF present) with the camera FOV equal to the newly
\* resolved goalHfov, and the rendering camera, when the tick wrote to it,
\* was given the same value.
C7_InstantZoom ==
    (slewRate = Inf /\ resolved /\ hasCameraSdf /\ pc = "post") =>
        /\ sdfHfov = goalHfov
        /\ (tickPath = "published" /\ ~nullDeref) => renderHfov = goalHfov

\* C7 witness (scenario A): maxZoom 10, camera at 2.0 rad, command 2.0:
\* one tick, goalHfov = 1.0 and camera FOV = 1.0.
C7_Witness ==
    /\ slewRate = Inf /\ resolved /\ pc = "post" /\ tickPath = "published"
    /\ maxZoom = DefaultMaxZoom /\ requestedZoomCmd = Two /\ oldHfov = Two
    /\ goalHfov = One /\ sdfHfov = One /\ renderHfov = One

\* C8: while no command has been submitted the camera FOV keeps its
\* configured value and no tick writes the FOV or signals a change.
C8_NoCommandNoWrite ==
    submits = 0 =>
        /\ sdfHfov = configuredHfov
        /\ sdfWrites = 0 /\ setChangedCalls = 0 /\ renderHfov = Null

\* C9: a tick that has ended marked the camera component changed (and
\* wrote the FOV) exactly once if the FOV changed during the tick and not at
\* all otherwise.
C9_ChangedIffFovChanged ==
    pc = "post" =>
        IF Slewed /\ newHfov # oldHfov
        THEN setChangedCalls = 1 /\ sdfWrites = 1
        ELSE setChangedCalls = 0 /\ sdfWrites = 0

\* C10: after a Configure that failed a lookup the controller is inert: the
\* transport and teardown callbacks are not connected, and no tick attempts
\* handle acquisition, resolves a command, changes goalHfov or writes the
\* FOV.
C10_FailedConfigureIsInert ==
    configFault # "none" =>
        /\ ~isValidConfig /\ ~subscribed
        /\ tickPath \in {"none", "inert"}
        /\ ~scene /\ ~camera
        /\ ~resolved /\ ~zoomChanged /\ goalHfov = RefHfov
        /\ sdfHfov = configuredHfov /\ renderHfov = Null
        /\ sdfWrites = 0 /\ setChangedCalls = 0

\* C10 witness: a tick has returned inert after a failed Configure, with
\* the scene ready and the camera name known.
C10_Witness ==
    /\ configFault # "none" /\ tickPath = "inert" /\ pc = "post"
    /\ renderStage = "ready" /\ cameraNameSet /\ sceneSensor = "camera"

\* OnZoom calls that have completed (both stores done).
CompletedSubmits == submits - (IF ppc = "flag" THEN 1 ELSE 0)

\* C11: commands are coalesced.  When two or more OnZoom calls completed
\* since the dirty flag was last cleared and none ran during the tick, the
\* tick's resolution loaded the value of the last call and set the goal from
\* it; the calls coalesced into that one resolution (the resolutions so far
\* number at most one more than the OnZoom calls completed before them);
\* and after the tick's clear nothing remains pending, so the intermediate
\* values are never resolved.
C11_CommandsCoalesced ==
    /\ (pc = "clear" /\ ~overlap /\ latched >= 2) =>
          /\ requestedZoomCmd = lastSubmitted
          /\ goalHfov = ResolveGoal(lastSubmitted, maxZoom)
          /\ resolutionCount + latched <= CompletedSubmits + 1
    /\ (pc = "slew" /\ resolved /\ ~overlap) =>
          /\ ~zoomChanged /\ latched = 0
          /\ goalHfov = ResolveGoal(lastSubmitted, maxZoom)

\* C11 witness: two OnZoom calls completed before the tick, the tick has
\* resolved once, the value 20 of the last call, and is about to clear.
C11_Witness ==
    /\ pc = "clear" /\ ~overlap /\ latched = 2 /\ resolutionCount = 1
    /\ requestedZoomCmd = R(20, 1) /\ lastSubmitted = R(20, 1)

\* C12: OnZoom updates zoomCommand and zoomChanged as one atomic step: no
\* tick loads the value stored by an OnZoom call that has not yet set the
\* flag, that is, no resolution happens while an OnZoom call is between its
\* two stores.
C12_NoValueBeforeFlag == ~inFlight

\* C13: goalHfov is recomputed only on a detected command change.  The one
\* step that changes goalHfov is the resolution of a tick that found the
\* dirty flag set, and it stores refHfov / clamp(zoomCommand); a tick that
\* finds the flag clear goes on to the slew without a resolution; OnZoom,
\* the slew and the publication leave goalHfov alone.
C13_GoalChangesOnlyOnResolution ==
    [][/\ (goalHfov' # goalHfov) =>
              /\ pc = "resolve" /\ pc' = "clear"
              /\ zoomChanged /\ resolved'
              /\ goalHfov' = ResolveGoal(zoomCommand, maxZoom)
       /\ (pc = "poll" /\ ~zoomChanged /\ pc' # pc) =>
              (pc' = "slew" /\ ~resolved')
       /\ (ppc' # ppc \/ sdfHfov' # sdfHfov \/ renderHfov' # renderHfov) =>
              goalHfov' = goalHfov]_vars

\* C13 witness: a tick that found the flag clear has moved the camera FOV
\* while goalHfov keeps the value 1.0 that an earlier resolution gave it
\* (the goal before any resolution is 2.0).
C13_Witness ==
    /\ ~resolved /\ Slewed /\ newHfov # oldHfov
    /\ resolutionCount = 1 /\ lastResolved = Two /\ goalHfov = One

\* C14: a resolution emits the clamp warning exactly when the requested zoom
\* is below 1.0 or above maxZoom; the goal is set all the same, from the
\* clamped value (refHfov / 1.0 or refHfov / maxZoom), and from the request
\* itself when it is in range; and the tick goes on to the slew as usual:
\* when it has returned it has taken one of the returns of the slew.
C14_WarningIffClamped ==
    resolved =>
        /\ warned = (RLt(requestedZoomCmd, One) \/ RLt(maxZoom, requestedZoomCmd))
        /\ goalHfov = IF RLt(requestedZoomCmd, One) THEN RefHfov
                      ELSE IF RLt(maxZoom, requestedZoomCmd)
                           THEN RDiv(RefHfov, maxZoom)
                           ELSE RDiv(RefHfov, requestedZoomCmd)
        /\ pc \in {"clear", "slew", "publish", "post", "idle", "crashed"}
        /\ pc \in {"post", "idle"} =>
              tickPath \in {"nosdf", "atgoal", "published"}

\* C14 witness: command 20 with maxZoom 10: warning emitted, goalHfov =
\* 2.0 / 10, and the tick went on to write and publish the FOV.
C14_Witness ==
    /\ resolved /\ warned /\ requestedZoomCmd = R(20, 1)
    /\ maxZoom = DefaultMaxZoom /\ goalHfov = R(1, 5)
    /\ pc = "post" /\ tickPath = "published" /\ sdfWrites = 1

\* C15: goal resolution is idempotent in the command.  A resolution of the
\* command value that the resolution before it resolved leaves goalHfov as
\* that one left it, wherever the camera FOV is by then.
C15_ResolutionIdempotent ==
    [][(pc = "resolve" /\ pc' = "clear" /\ zoomCommand = lastResolved) =>
           (repeated' /\ goalHfov' = goalHfov)]_vars

\* C15 witness: zoom 2.0 has been resolved twice, the first time with the
\* camera at its configured 2.0 rad and the second time in the middle of
\* the slew, with the camera at neither end.
C15_Witness ==
    /\ repeated /\ resolutionCount = 2 /\ requestedZoomCmd = Two
    /\ configuredHfov = Two /\ goalHfov = One
    /\ tickPath = "slew" /\ oldHfov # Two /\ oldHfov # One

\* C16: a tick that starts configured and without a camera handle only
\* attempts the acquisition and returns: it takes the acquire return
\* whether or not the acquisition succeeds, it resolves nothing, and it
\* leaves the dirty flag, the command, goalHfov and the FOV of the camera
\* and of the rendering camera as they are.  The handle is held afterwards
\* exactly if the scene is ready, the camera name is known and the scene has
\* a camera under that name; otherwise the next tick starts in the same way.
C16_HandlelessTickOnlyAcquires ==
    [][(pc = "idle" /\ isValidConfig /\ ~camera /\ pc' # pc) =>
           /\ pc' = "post" /\ tickPath' = "acquire"
           /\ ~resolved' /\ sdfWrites' = 0 /\ setChangedCalls' = 0
           /\ UNCHANGED <<zoomChanged, zoomCommand, goalHfov, sdfHfov,
                          renderHfov, resolutionCount>>
           /\ camera' = (/\ renderStage = "ready" /\ cameraNameSet
                         /\ sceneSensor = "camera")]_vars

\* C16 witness: a tick has acquired the camera and returned, with a command
\* pending and untouched.
C16_Witness ==
    /\ tickPath = "acquire" /\ pc = "post" /\ camera /\ isValidConfig
    /\ zoomChanged /\ resolutionCount = 0 /\ goalHfov = RefHfov
    /\ sdfHfov = configuredHfov /\ renderHfov = Null

\* C17: the sensor width a tick derives from the camera's focal length and
\* FOV is static: on every tick that computes it, it is the width of the
\* camera as configured.
C17_SensorWidthStatic ==
    Slewed => sensorWidth = SensorWidth(lensFocalLength, configuredHfov)

\* C18: a command submitted while the plugin is configured and holds no
\* camera is retained.  Until a tick reaches the poll the dirty flag stays
\* set, through every handle-less tick; the first tick that reaches the poll
\* finds the flag set and resolves: once past the resolution, goalHfov is
\* the goal of the value it loaded, which is the value last submitted unless
\* an OnZoom call ran during that tick.
C18_UninitCommandRetained ==
    /\ uninitCommand = "pending" => (zoomChanged /\ latched >= 1)
    /\ uninitCommand = "polled" =>
          /\ pc \in {"poll", "resolve", "clear", "slew", "publish"}
          /\ pc \in {"poll", "resolve"} => zoomChanged
          /\ pc \in {"clear", "slew", "publish"} =>
                /\ resolved
                /\ goalHfov = ResolveGoal(requestedZoomCmd, maxZoom)
                /\ ~overlap => requestedZoomCmd = lastSubmitted

\* C18 witness: the one command, zoom 2.0, completed before the camera was
\* acquired; the first tick to reach the poll has resolved it to 1.0 rad and
\* moved the camera.
C18_Witness ==
    /\ uninitCommand = "polled" /\ pc = "publish" /\ submits = 1
    /\ resolved /\ requestedZoomCmd = Two /\ goalHfov = One
    /\ resolutionCount = 1 /\ newHfov # oldHfov

\* C19: the tick publishes the new FOV to the rendering camera only while
\* the handle is held: camera->SetHFOV is never called on a handle that
\* OnRenderTeardown has released since the tick's check of it.
C19_PublishOnlyWhileHeld == ~nullDeref

\* C20: the goal resolutions so far never outnumber the OnZoom calls that
\* have set the dirty flag so far, and a tick that resolves has found the
\* flag set; with the flag clear and no command pending the two counts can
\* only move again after another OnZoom call.
C20_ResolutionsBoundedBySubmits ==
    /\ resolutionCount <= CompletedSubmits
    /\ pc = "resolve" => (zoomChanged /\ resolutionCount < CompletedSubmits)
    /\ (zoomChanged <=> latched >= 1)

\* C20 witness: one OnZoom call, one resolution, and a later tick that
\* reached the poll, found the flag clear and resolved nothing.
C20_Witness ==
    /\ CompletedSubmits = 1 /\ resolutionCount = 1
    /\ pc = "post" /\ tickPath \in {"atgoal", "published"} /\ ~resolved
    /\ ~zoomChanged

====
